---- MODULE Spec2Model ----
(***************************************************************************)
(* The task list manager (src/unnamed/part_000): the module-level state    *)
(* `tasks` and `currentFilter`, the localStorage slot "pinkTodoTasks", the *)
(* rendered task list, the pending delete timers, and one action per       *)
(* event handler, timer callback or utility function.                      *)
(***************************************************************************)
EXTENDS Integers, Sequences, FiniteSets, TLC

VARIABLES
    tasks,          \* let tasks = []                      (line 18)
    currentFilter,  \* let currentFilter = "all"           (line 19)
    storage,        \* localStorage item "pinkTodoTasks"
    dom,            \* data-task-id of the <li> children of taskList, in order
    timers,         \* task ids of the pending 300 ms delete timers, oldest first
    writeFailures,  \* how many times localStorage.setItem has thrown
    now,            \* the value Date.now() last returned
    lastOp          \* what the last handler did and showed (alert, exception)

vars == <<tasks, currentFilter, storage, dom, timers, writeFailures, now, lastOp>>

----------------------------------------------------------------------------
(* Bounds of the model *)

MaxClock == 2           \* largest value the clock reaches
MaxTimers == 1          \* most delete timers pending at once
MaxWriteFailures == 1   \* most localStorage.setItem calls that throw in a run

----------------------------------------------------------------------------
(* Strings: sequences of one-character strings *)

\* what the user types into taskInput
InputTexts ==
    { <<>>, <<" ", " ">>, <<"a">>, <<" ", "A", " ">>, <<"b", " ">> }

IsWhiteSpace(c) == c = " "

LowerChar(c) == IF c = "A" THEN "a" ELSE c

\* String.prototype.toLowerCase
ToLowerCase(s) == [i \in 1..Len(s) |-> LowerChar(s[i])]

RECURSIVE TrimStart(_)
TrimStart(s) ==
    IF s # <<>> /\ IsWhiteSpace(Head(s)) THEN TrimStart(Tail(s)) ELSE s

RECURSIVE TrimEnd(_)
TrimEnd(s) ==
    IF s # <<>> /\ IsWhiteSpace(s[Len(s)])
    THEN TrimEnd(SubSeq(s, 1, Len(s) - 1))
    ELSE s

\* trimming the leading white space only
TrimStartOnly(s) == TrimStart(s)

\* String.prototype.trim
Trim(s) == TrimEnd(TrimStart(s))

----------------------------------------------------------------------------
(* Task objects.  A property an object lacks reads as undefined.           *)

Has(t, f) == f \in DOMAIN t

\* task.completed in a boolean context: undefined is falsy
Completed(t) == Has(t, "completed") /\ t.completed

\* the object literal of handleAddTask
NewTask(id, taskText, createdAt) ==
    [id |-> id, text |-> taskText, completed |-> FALSE, createdAt |-> createdAt]

\* new Date(ms).toISOString()
ToISOString(ms) == <<"ISO", ms>>

----------------------------------------------------------------------------
(* JSON text.  An array is written as the sequence of its objects, each    *)
(* object as the sequence of its <<key, value>> members in property order. *)

PropertyOrder == <<"id", "text", "completed", "createdAt">>

\* a serializer that leaves createdAt out
StringifyWithoutDate(t) ==
    LET keys == SelectSeq(PropertyOrder, LAMBDA k : Has(t, k) /\ k # "createdAt")
    IN  [i \in 1..Len(keys) |-> <<keys[i], t[keys[i]]>>]

\* JSON.stringify of one task object
StringifyObject(t) ==
    LET keys == SelectSeq(PropertyOrder, LAMBDA k : Has(t, k))
    IN  [i \in 1..Len(keys) |-> <<keys[i], t[keys[i]]>>]

\* JSON.stringify(array)
JsonStringify(arr) ==
    [syntax |-> "array", items |-> [i \in 1..Len(arr) |-> StringifyObject(arr[i])]]

\* JSON.parse of one object: a repeated key keeps its last value
ParseObject(members) ==
    LET keys == {members[i][1] : i \in 1..Len(members)}
        last(k) == CHOOSE i \in 1..Len(members) :
                      /\ members[i][1] = k
                      /\ \A j \in 1..Len(members) : members[j][1] = k => j <= i
    IN  [k \in keys |-> members[last(k)][2]]

\* A value that is not an array (an object, a number, a string, null) is
\* written as a one-element sequence holding its kind, so that every value
\* `tasks` can take is a sequence of records.
NonArray(kind) == << [nonArray |-> kind] >>

\* Array.isArray(value)
IsArray(value) == ~(Len(value) = 1 /\ Has(value[1], "nonArray"))

\* the JSON texts that parse to a value that is not an array
NonArrayTexts == {"object", "number", "string", "nullText"}

\* JSON.parse(text): a SyntaxError, or the value and whether it is an array
JsonParse(text) ==
    CASE text.syntax = "array" ->
            [threw |-> FALSE, isArray |-> TRUE,
             value |-> [i \in 1..Len(text.items) |-> ParseObject(text.items[i])]]
      [] text.syntax \in NonArrayTexts ->
            [threw |-> FALSE, isArray |-> FALSE, value |-> NonArray(text.syntax)]
      [] OTHER ->
            [threw |-> TRUE, isArray |-> FALSE, value |-> <<>>]

\* localStorage.getItem returns null when the key is absent
NoItem == [syntax |-> "null"]

----------------------------------------------------------------------------
(* Helpers of the handlers *)

\* the filter with its two cases exchanged
FilteredTasksSwapped(ts, filter) ==
    CASE filter = "completed" -> SelectSeq(ts, LAMBDA t : ~Completed(t))
      [] filter = "pending"   -> SelectSeq(ts, LAMBDA t : Completed(t))
      [] OTHER                -> ts

\* renderTasks: the filtered list (lines 279-290)
FilteredTasks(ts, filter) ==
    CASE filter = "completed" -> SelectSeq(ts, LAMBDA t : Completed(t))
      [] filter = "pending"   -> SelectSeq(ts, LAMBDA t : ~Completed(t))
      [] OTHER                -> ts

\* renderTasks: one <li data-task-id=...> per filtered task (lines 301-309);
\* when tasks is not an array the list has been emptied (line 276) before
\* tasks.filter or filteredTasks.forEach throws
RenderTasks(ts, filter) ==
    IF ~IsArray(ts) THEN <<>>
    ELSE LET shown == FilteredTasks(ts, filter)
         IN  [i \in 1..Len(shown) |-> shown[i].id]

\* saveTasksToStorage: setItem may throw (quota); the error is caught and logged
SaveTasksToStorage(ts, writeOk) ==
    IF writeOk THEN JsonStringify(ts) ELSE storage

\* updateStatistics reads the undeclared identifier completedTask (line 384)
UpdateStatisticsThrows == TRUE

NoAlert == "none"

\* the argument of a handler, as a record named after what it is: the text
\* typed, a task id, a filter, the file read; NoArg for a handler without one
NoArg == [none |-> TRUE]

Op(name, arg, outcome, alert, count, threw, saveFailed) ==
    [op |-> name, arg |-> arg, outcome |-> outcome, alert |-> alert,
     count |-> count, threw |-> threw, saveFailed |-> saveFailed]

\* Handlers and timer callbacks run one at a time, each to its end: lastOp
\* holds what the one that has just ended did, until the event loop is idle
\* again and takes the next event.
IdleOp == Op("idle", NoArg, "idle", NoAlert, 0, FALSE, FALSE)

Idle == lastOp.op = "idle"

HandlerReturns ==
    /\ ~Idle
    /\ lastOp' = IdleOp
    /\ UNCHANGED <<tasks, currentFilter, storage, dom, timers, writeFailures, now>>

----------------------------------------------------------------------------
(* State after the script has run on a fresh profile: initializeApp found   *)
(* no saved tasks, rendered the empty list, and updateStatistics threw.     *)

Init ==
    /\ tasks = <<>>
    /\ currentFilter = "all"
    /\ storage = NoItem
    /\ dom = <<>>
    /\ timers = <<>>
    /\ writeFailures = 0
    /\ now = 1
    /\ lastOp = Op("initializeApp", NoArg, "noSavedTasks", NoAlert, 0,
                   UpdateStatisticsThrows, FALSE)

\* a branch that returns before Date.now() and saveTasksToStorage() are
\* reached does not depend on what they would have done
NotReached(clock, writeOk) == clock = now /\ writeOk

\* a save whose failure undoes the mutation and stops the handler
SaveOrRollBack(ts, writeOk) ==
    /\ tasks' = IF writeOk THEN ts ELSE tasks
    /\ writeOk \/ writeFailures < MaxWriteFailures
    /\ storage' = SaveTasksToStorage(ts, writeOk)
    /\ writeFailures' = IF writeOk THEN writeFailures ELSE writeFailures + 1
    /\ dom' = IF writeOk THEN RenderTasks(ts, currentFilter) ELSE dom

\* the tail shared by the mutating handlers: saveTasksToStorage(); renderTasks()
SaveAndRender(ts, writeOk) ==
    /\ tasks' = ts
    /\ writeOk \/ writeFailures < MaxWriteFailures
    /\ storage' = SaveTasksToStorage(ts, writeOk)
    /\ writeFailures' = IF writeOk THEN writeFailures ELSE writeFailures + 1
    /\ dom' = RenderTasks(ts, currentFilter)

----------------------------------------------------------------------------
(* handleAddTask (lines 129-181)                                            *)

\* tasks.some(...) visits the tasks in order and stops at the first match;
\* reading .text of a task that has none and calling toLowerCase on it throws.
\* The index at which some() stops, 0 when it runs to the end.
SomeStopsAt(ts, taskText) ==
    LET stops == {i \in 1..Len(ts) :
                     \/ ~Has(ts[i], "text")
                     \/ ToLowerCase(ts[i].text) = ToLowerCase(taskText)}
    IN  IF stops = {} THEN 0 ELSE CHOOSE i \in stops : \A j \in stops : i <= j

\* the duplicate check without toLowerCase
IsDuplicateExact(ts, taskText) ==
    \E i \in 1..Len(ts) : Has(ts[i], "text") /\ ts[i].text = taskText

IsDuplicate(ts, taskText) ==
    LET i == SomeStopsAt(ts, taskText) IN i # 0 /\ Has(ts[i], "text")

\* tasks.some is not a function when tasks is not an array
DuplicateCheckThrows(ts, taskText) ==
    \/ ~IsArray(ts)
    \/ LET i == SomeStopsAt(ts, taskText) IN i # 0 /\ ~Has(ts[i], "text")

\* adding at the front, as unshift would
Unshift(ts, newTask) == <<newTask>> \o ts

\* tasks.push(newTask)
Push(ts, newTask) == Append(ts, newTask)

HandleAddTask(value, clock, writeOk) ==
    LET taskText == Trim(value) IN
    /\ UNCHANGED <<currentFilter, timers>>
    /\ IF taskText = <<>>
       THEN /\ NotReached(clock, writeOk)
            /\ UNCHANGED <<tasks, storage, dom, writeFailures, now>>
            /\ lastOp' = Op("add", [text |-> value], "empty", NoAlert, 0,
                            FALSE, FALSE)
       ELSE IF DuplicateCheckThrows(tasks, taskText)
       THEN /\ NotReached(clock, writeOk)
            /\ UNCHANGED <<tasks, storage, dom, writeFailures, now>>
            /\ lastOp' = Op("add", [text |-> value], "TypeError", NoAlert, 0,
                            TRUE, FALSE)
       ELSE IF IsDuplicate(tasks, taskText)
       THEN /\ NotReached(clock, writeOk)
            /\ UNCHANGED <<tasks, storage, dom, writeFailures, now>>
            /\ lastOp' = Op("add", [text |-> value], "duplicate",
                            "This task already exists!", 0, FALSE, FALSE)
       ELSE /\ SaveAndRender(Push(tasks, NewTask(clock, taskText, ToISOString(clock))),
                             writeOk)
            /\ now' = clock
            /\ lastOp' = Op("add", [text |-> value], "added", NoAlert, 0,
                            UpdateStatisticsThrows, ~writeOk)

\* clock is what Date.now() returns in this call: never less than the last reading
AddTask ==
    /\ Idle
    /\ \E value \in InputTexts, clock \in now..MaxClock, writeOk \in BOOLEAN :
          HandleAddTask(value, clock, writeOk)

----------------------------------------------------------------------------
(* toggleTaskCompletion (lines 187-206)                                     *)

\* tasks.find(task => task.id === taskId): the index of the first match, or 0
FindIndex(ts, taskId) ==
    LET hits == {i \in 1..Len(ts) : ts[i].id = taskId}
    IN  IF hits = {} THEN 0 ELSE CHOOSE i \in hits : \A j \in hits : i <= j

\* task.completed = true
MarkCompleted(t) ==
    [f \in DOMAIN t \cup {"completed"} |-> IF f = "completed" THEN TRUE ELSE t[f]]

\* a toggle that also stamps the task anew
FlipAndRestamp(t) ==
    [f \in DOMAIN t \cup {"completed"} |->
        IF f = "completed" THEN ~Completed(t)
        ELSE IF f = "createdAt" THEN ToISOString(0)
        ELSE t[f]]

\* task.completed = !task.completed, on the object itself
Flip(t) ==
    [f \in DOMAIN t \cup {"completed"} |->
        IF f = "completed" THEN ~Completed(t) ELSE t[f]]

ToggleTaskCompletion(taskId, writeOk) ==
    LET i == FindIndex(tasks, taskId) IN
    /\ UNCHANGED <<currentFilter, timers, now>>
    /\ IF ~IsArray(tasks)
       THEN \* tasks.find is not a function
            /\ NotReached(now, writeOk)
            /\ UNCHANGED <<tasks, storage, dom, writeFailures>>
            /\ lastOp' = Op("toggle", [id |-> taskId], "TypeError", NoAlert, 0,
                            TRUE, FALSE)
       ELSE IF i # 0
       THEN /\ SaveAndRender([tasks EXCEPT ![i] = Flip(tasks[i])], writeOk)
            /\ lastOp' = Op("toggle", [id |-> taskId], "toggled", NoAlert, 0,
                            UpdateStatisticsThrows, ~writeOk)
       ELSE /\ NotReached(now, writeOk)
            /\ UNCHANGED <<tasks, storage, dom, writeFailures>>
            /\ lastOp' = Op("toggle", [id |-> taskId], "notFound", NoAlert, 0,
                            FALSE, FALSE)

TaskIds == 1..MaxClock

ToggleTask ==
    /\ Idle
    /\ \E taskId \in TaskIds, writeOk \in BOOLEAN :
          ToggleTaskCompletion(taskId, writeOk)

----------------------------------------------------------------------------
(* deleteTask (lines 212-235): the call arms a 300 ms timer when the task   *)
(* has an element in the list; the timer's callback removes the task.       *)

\* document.querySelector(`[data-task-id="${taskId}"]`)
QuerySelector(taskId) == \E i \in 1..Len(dom) : dom[i] = taskId

DeleteTask(taskId) ==
    /\ UNCHANGED <<tasks, currentFilter, storage, dom, writeFailures, now>>
    /\ IF QuerySelector(taskId)
       THEN /\ Len(timers) < MaxTimers
            /\ timers' = Append(timers, taskId)
            /\ lastOp' = Op("deleteTask", [id |-> taskId], "scheduled", NoAlert, 0,
                            FALSE, FALSE)
       ELSE /\ timers' = timers
            /\ lastOp' = Op("deleteTask", [id |-> taskId], "noElement", NoAlert, 0,
                            FALSE, FALSE)

\* the delete button of a displayed task: taskId is parseInt of its data-task-id
DeleteClick == Idle /\ \E i \in 1..Len(dom) : DeleteTask(dom[i])

\* the filter with === in place of !==
OnlyId(ts, taskId) == SelectSeq(ts, LAMBDA t : t.id = taskId)

\* tasks.filter(task => task.id !== taskId)
WithoutId(ts, taskId) == SelectSeq(ts, LAMBDA t : t.id # taskId)

\* a callback that forgets the task it was armed for
DeleteTimeoutKeepsTask(writeOk) ==
    /\ timers # <<>>
    /\ SaveAndRender(tasks, writeOk)
    /\ timers' = Tail(timers)
    /\ lastOp' = Op("deleteTimeout", [id |-> Head(timers)], "deleted", NoAlert, 0,
                    UpdateStatisticsThrows, ~writeOk)
    /\ UNCHANGED <<currentFilter, now>>

\* the setTimeout callback (lines 221-233); equal delays fire in the order set
DeleteTimeout(writeOk) ==
    /\ timers # <<>>
    /\ LET taskId == Head(timers) IN
        /\ SaveAndRender(WithoutId(tasks, taskId), writeOk)
        /\ timers' = Tail(timers)
        /\ lastOp' = Op("deleteTimeout", [id |-> taskId], "deleted", NoAlert,
                        Len(tasks) - Len(WithoutId(tasks, taskId)),
                        UpdateStatisticsThrows, ~writeOk)
    /\ UNCHANGED <<currentFilter, now>>

DeleteTimerFires == Idle /\ \E writeOk \in BOOLEAN : DeleteTimeout(writeOk)

----------------------------------------------------------------------------
(* handleClearCompleted (lines 241-268)                                     *)

\* the filter without its negation
OnlyCompleted(ts) == SelectSeq(ts, LAMBDA t : Completed(t))

\* tasks.filter(task => !task.completed)
WithoutCompleted(ts) == SelectSeq(ts, LAMBDA t : ~Completed(t))

\* tasks.filter(task => task.completed).length
CompletedCount(ts) == Len(SelectSeq(ts, LAMBDA t : Completed(t)))

HandleClearCompleted(confirmed, writeOk) ==
    LET completedCount == CompletedCount(tasks) IN
    /\ UNCHANGED <<currentFilter, timers, now>>
    /\ IF ~IsArray(tasks)
       THEN \* tasks.filter is not a function
            /\ NotReached(now, writeOk) /\ confirmed
            /\ UNCHANGED <<tasks, storage, dom, writeFailures>>
            /\ lastOp' = Op("clearCompleted", NoArg, "TypeError", NoAlert, 0, TRUE, FALSE)
       ELSE IF completedCount = 0
       THEN /\ NotReached(now, writeOk) /\ confirmed
            /\ UNCHANGED <<tasks, storage, dom, writeFailures>>
            /\ lastOp' = Op("clearCompleted", NoArg, "nothingToClear",
                            "No completed tasks to clear!", 0, FALSE, FALSE)
       ELSE IF ~confirmed
       THEN /\ NotReached(now, writeOk)
            /\ UNCHANGED <<tasks, storage, dom, writeFailures>>
            /\ lastOp' = Op("clearCompleted", NoArg, "declined", NoAlert,
                            completedCount, FALSE, FALSE)
       ELSE /\ SaveAndRender(WithoutCompleted(tasks), writeOk)
            /\ lastOp' = Op("clearCompleted", NoArg, "cleared", NoAlert,
                            completedCount, UpdateStatisticsThrows, ~writeOk)

ClearCompleted ==
    /\ Idle
    /\ \E confirmed \in BOOLEAN, writeOk \in BOOLEAN :
          HandleClearCompleted(confirmed, writeOk)

----------------------------------------------------------------------------
(* updateStatistics (lines 377-390): the three counts it computes before    *)
(* the call that throws                                                     *)

\* statistics that count the pending tasks as those whose completed is false
StatisticsByCounting(ts) ==
    [total     |-> Len(ts),
     completed |-> Len(SelectSeq(ts, LAMBDA t : Completed(t))),
     pending   |-> Len(SelectSeq(ts, LAMBDA t :
                                       Has(t, "completed") /\ t.completed = FALSE))]

Statistics(ts) ==
    LET total == Len(ts)
        completed == Len(SelectSeq(ts, LAMBDA t : Completed(t)))
    IN  [total |-> total, completed |-> completed, pending |-> total - completed]

----------------------------------------------------------------------------
(* The filter buttons (lines 76-90)                                         *)

Filters == {"all", "completed", "pending"}

SetFilter(filter) ==
    /\ currentFilter' = filter
    /\ dom' = RenderTasks(tasks, filter)
    /\ lastOp' = Op("filter", [filter |-> filter],
                    IF IsArray(tasks) THEN "rendered" ELSE "renderTypeError",
                    NoAlert, 0, ~IsArray(tasks), FALSE)
    /\ UNCHANGED <<tasks, storage, timers, writeFailures, now>>

FilterClick == Idle /\ \E filter \in Filters : SetFilter(filter)

----------------------------------------------------------------------------
(* importTasks (lines 534-564): the call only starts the FileReader; the    *)
(* work is done by reader.onload, which this action models.                 *)

ImportAlert == "Error importing tasks. Please check the file format."

ReaderOnload(fileText, confirmed, writeOk) ==
    LET parsed == JsonParse(fileText) IN
    /\ UNCHANGED <<currentFilter, timers, now>>
    /\ IF parsed.threw
       THEN /\ NotReached(now, writeOk) /\ confirmed
            /\ UNCHANGED <<tasks, storage, dom, writeFailures>>
            /\ lastOp' = Op("import", fileText, "SyntaxError", ImportAlert, 0,
                            FALSE, FALSE)
       ELSE IF ~parsed.isArray
       THEN /\ NotReached(now, writeOk) /\ confirmed
            /\ UNCHANGED <<tasks, storage, dom, writeFailures>>
            /\ lastOp' = Op("import", fileText, "invalidFileFormat", ImportAlert, 0,
                            FALSE, FALSE)
       ELSE IF ~confirmed
       THEN /\ NotReached(now, writeOk)
            /\ UNCHANGED <<tasks, storage, dom, writeFailures>>
            /\ lastOp' = Op("import", fileText, "declined", NoAlert,
                            Len(parsed.value), FALSE, FALSE)
       ELSE /\ SaveAndRender(parsed.value, writeOk)
            \* updateStatistics throws inside the try block: the catch clause
            \* shows the import alert after the tasks have been replaced
            /\ lastOp' = Op("import", fileText, "imported",
                            IF UpdateStatisticsThrows THEN ImportAlert ELSE NoAlert,
                            Len(parsed.value), FALSE, ~writeOk)

\* the files offered to importTasks
ImportFiles ==
    { [syntax |-> "invalid"],
      [syntax |-> "object"],
      JsonStringify(<< [id |-> 1, text |-> <<"A">>, completed |-> TRUE,
                        createdAt |-> ToISOString(1)] >>),
      JsonStringify(<< [id |-> 2] >>) }

ImportTasks ==
    /\ Idle
    /\ \E fileText \in ImportFiles, confirmed \in BOOLEAN, writeOk \in BOOLEAN :
          ReaderOnload(fileText, confirmed, writeOk)

----------------------------------------------------------------------------
(* clearAllData (lines 470-482)                                             *)

\* clearing the collection without removing the item
ClearAllDataKeepsItem(confirmed) ==
    /\ UNCHANGED <<currentFilter, timers, writeFailures, now, storage>>
    /\ IF confirmed
       THEN /\ tasks' = <<>>
            /\ dom' = RenderTasks(<<>>, currentFilter)
            /\ lastOp' = Op("clearAllData", NoArg, "cleared", NoAlert, 0,
                            UpdateStatisticsThrows, FALSE)
       ELSE /\ UNCHANGED <<tasks, dom>>
            /\ lastOp' = Op("clearAllData", NoArg, "declined", NoAlert, 0, FALSE, FALSE)

ClearAllData(confirmed) ==
    /\ UNCHANGED <<currentFilter, timers, writeFailures, now>>
    /\ IF confirmed
       THEN /\ storage' = NoItem
            /\ tasks' = <<>>
            /\ dom' = RenderTasks(<<>>, currentFilter)
            /\ lastOp' = Op("clearAllData", NoArg, "cleared", NoAlert, 0,
                            UpdateStatisticsThrows, FALSE)
       ELSE /\ UNCHANGED <<tasks, storage, dom>>
            /\ lastOp' = Op("clearAllData", NoArg, "declined", NoAlert, 0, FALSE, FALSE)

ClearAll == Idle /\ \E confirmed \in BOOLEAN : ClearAllData(confirmed)

----------------------------------------------------------------------------
(* Page load: the script runs again (lines 18-37)                           *)

\* loadTasksFromStorage (lines 449-464): the value of tasks afterwards, given
\* the item read and the value tasks had (the [] of line 18 at start-up)
LoadTasksFromStorage(tasksJson, before) ==
    IF tasksJson = NoItem THEN before
    ELSE LET parsed == JsonParse(tasksJson)
         IN  IF parsed.threw THEN <<>>
             \* tasks = null, then tasks.length throws inside the try (line 455)
             ELSE IF parsed.value = NonArray("nullText") THEN <<>>
             ELSE parsed.value

\* whether the item read leaves tasks with a value that is not an array
LoadsNonArray(tasksJson) == ~IsArray(LoadTasksFromStorage(tasksJson, <<>>))

\* what initializeApp logs and whether it ends with an uncaught error
StartUpOp(tasksJson) ==
    IF LoadsNonArray(tasksJson)
    THEN \* renderTasks: filteredTasks.forEach is not a function
         Op("initializeApp", NoArg, "renderTypeError", NoAlert, 0, TRUE, FALSE)
    ELSE Op("initializeApp", NoArg,
            IF tasksJson = NoItem THEN "noSavedTasks"
            ELSE IF LoadTasksFromStorage(tasksJson, <<>>) = <<>>
                    /\ tasksJson # JsonStringify(<<>>) THEN "loadError"
            ELSE "loaded",
            NoAlert, 0, UpdateStatisticsThrows, FALSE)

InitializeApp ==
    LET loaded == LoadTasksFromStorage(storage, <<>>) IN
    /\ Idle
    /\ tasks' = loaded
    /\ currentFilter' = "all"
    /\ timers' = <<>>
    /\ UNCHANGED <<storage, writeFailures, now>>
    /\ dom' = RenderTasks(loaded, "all")
    /\ lastOp' = StartUpOp(storage)

\* what the slot may hold when the page is opened: nothing, text that is not
\* JSON, JSON that is not an array, and arrays saved earlier
SlotContents ==
    { NoItem,
      [syntax |-> "invalid"],
      [syntax |-> "object"],
      [syntax |-> "number"],
      [syntax |-> "string"],
      [syntax |-> "nullText"],
      JsonStringify(<<>>),
      JsonStringify(<< NewTask(1, <<"a">>, ToISOString(1)) >>) }

\* the state after the script has run on a profile whose slot holds tasksJson
StartUp(tasksJson) ==
    /\ storage = tasksJson
    /\ tasks = LoadTasksFromStorage(tasksJson, <<>>)
    /\ currentFilter = "all"
    /\ dom = RenderTasks(tasks, "all")
    /\ timers = <<>>
    /\ writeFailures = 0
    /\ now = 1
    /\ lastOp = StartUpOp(tasksJson)

LoadInit == \E tasksJson \in SlotContents : StartUp(tasksJson)

----------------------------------------------------------------------------
StoreNext ==
    \/ AddTask
    \/ ToggleTask
    \/ DeleteClick
    \/ DeleteTimerFires
    \/ ClearCompleted
    \/ FilterClick
    \/ HandlerReturns

\* add, toggle, delete and clear completed, from the empty collection
StoreSpec == Init /\ [][StoreNext]_vars

Next ==
    \/ StoreNext
    \/ ImportTasks
    \/ ClearAll
    \/ InitializeApp

\* every handler, and reloading the page
Spec == Init /\ [][Next]_vars

PersistNext ==
    \/ AddTask
    \/ ToggleTask
    \/ ClearCompleted
    \/ ImportTasks
    \/ InitializeApp
    \/ HandlerReturns

\* the handlers that save before they return, and reloading the page
PersistSpec == Init /\ [][PersistNext]_vars

\* the same handlers on a page opened with any slot content
LoadSpec == LoadInit /\ [][PersistNext]_vars

\* A handler runs to its end, and a timer that is due gets its turn in the
\* event loop however many other events arrive.
Fairness == WF_vars(HandlerReturns) /\ SF_vars(DeleteTimerFires)

FairNext ==
    \/ AddTask
    \/ ToggleTask
    \/ DeleteClick
    \/ DeleteTimerFires
    \/ ClearCompleted
    \/ ImportTasks
    \/ HandlerReturns

\* the handlers that change the collection, every task displayed, with the
\* timers scheduled fairly
FairSpec == Init /\ [][FairNext]_vars /\ Fairness

----------------------------------------------------------------------------
(* Vocabulary of the properties, stated without the operators of the model *)

\* two characters that differ at most in case
SameLetter(c, d) == c = d \/ {c, d} = {"a", "A"}

\* two texts equal when compared case-insensitively
EqualIgnoringCase(s, t) ==
    /\ Len(s) = Len(t)
    /\ \A i \in 1..Len(s) : SameLetter(s[i], t[i])

\* s consists of white space only
IsBlank(s) == \A i \in 1..Len(s) : s[i] = " "

\* t is s without its leading and trailing white space
IsTrimOf(t, s) ==
    /\ t = <<>> \/ (t[1] # " " /\ t[Len(t)] # " ")
    /\ \E lead \in 0..Len(s) :
          /\ lead + Len(t) <= Len(s)
          /\ \A i \in 1..Len(s) :
                IF i > lead /\ i <= lead + Len(t) THEN s[i] = t[i - lead]
                ELSE s[i] = " "

Stripped(s) ==
    CHOOSE t \in {SubSeq(s, a, b) : a \in 1..(Len(s) + 1), b \in 0..Len(s)} :
        IsTrimOf(t, s)

\* the subsequence of s at the indexes in K
RECURSIVE PickFrom(_, _, _)
PickFrom(s, K, i) ==
    IF i > Len(s) THEN <<>>
    ELSE (IF i \in K THEN <<s[i]>> ELSE <<>>) \o PickFrom(s, K, i + 1)

Pick(s, K) == PickFrom(s, K, 1)

IsCompleted(t) == "completed" \in DOMAIN t /\ t.completed = TRUE

----------------------------------------------------------------------------
(* C1: after any sequence of add, delete and toggleCompletion calls from   *)
(* the empty collection, no two tasks of the collection have the same id,  *)
(* also when the clock returns the same value for two successive adds.     *)
C1_UniqueIds ==
    \A i, j \in 1..Len(tasks) : i # j => tasks[i].id # tasks[j].id

(* C2: after any sequence of add, toggleCompletion, delete and             *)
(* clearCompleted calls from the empty collection, no two tasks of the     *)
(* collection have texts that are equal when compared case-insensitively.  *)
C2_UniqueTexts ==
    \A i, j \in 1..Len(tasks) :
        i # j => ~EqualIgnoringCase(tasks[i].text, tasks[j].text)

\* a duplicate differing in case has just been refused beside two tasks
C2_Witness ==
    /\ lastOp.op = "add"
    /\ lastOp.outcome = "duplicate"
    /\ lastOp.arg.text = <<" ", "A", " ">>
    /\ Len(tasks) = 2

(* C3: add(text) is rejected when text is empty after trimming, and when   *)
(* some existing task has case-insensitively equal text; every rejected    *)
(* add leaves the collection and the persisted slot unchanged.             *)
C3_RejectedAdd ==
    [][lastOp'.op = "add" =>
        /\ IsBlank(lastOp'.arg.text) => lastOp'.outcome = "empty"
        /\ (\E i \in 1..Len(tasks) :
               /\ "text" \in DOMAIN tasks[i]
               /\ ~IsBlank(lastOp'.arg.text)
               /\ EqualIgnoringCase(tasks[i].text, Stripped(lastOp'.arg.text)))
           => lastOp'.outcome \in {"duplicate", "TypeError"}
        /\ lastOp'.outcome # "added" => tasks' = tasks /\ storage' = storage
      ]_vars

\* " A " has just been refused because "a" exists, with the slot already written
C3_Witness ==
    /\ lastOp.op = "add"
    /\ lastOp.outcome = "duplicate"
    /\ lastOp.arg.text = <<" ", "A", " ">>
    /\ \E i \in 1..Len(tasks) : tasks[i].text = <<"a">>
    /\ storage = JsonStringify(tasks)

(* C4: every mutating operation (add, toggleCompletion, delete,            *)
(* clearCompleted, import) that succeeds has written the new collection to *)
(* the slot when it returns to its caller, as long as no storage write has *)
(* failed; for delete the new collection is the one without the task.      *)
C4_WrittenBeforeReturn ==
    writeFailures = 0 =>
        /\ (/\ lastOp.op \in {"add", "toggle", "clearCompleted", "import"}
            /\ lastOp.outcome \in {"added", "toggled", "cleared", "imported"})
           => storage = JsonStringify(tasks)
        /\ (lastOp.op = "deleteTask" /\ lastOp.outcome = "scheduled")
           => /\ \A i \in 1..Len(tasks) : tasks[i].id # lastOp.arg.id
              /\ storage = JsonStringify(tasks)

\* every element of the array in the file has an id, a text and a completed member
WellFormedPayload(fileText) ==
    /\ fileText.syntax = "array"
    /\ \A i \in 1..Len(fileText.items) :
          \A k \in {"id", "text", "completed"} :
              \E m \in 1..Len(fileText.items[i]) : fileText.items[i][m][1] = k

(* C5: import replaces the collection only when the payload is a sequence  *)
(* in which every element has an id, a string text and a boolean           *)
(* completed; any other payload is rejected as malformed and leaves the    *)
(* collection and the persisted slot unchanged.                            *)
C5_ImportValidates ==
    [][lastOp'.op = "import" =>
        IF WellFormedPayload(lastOp'.arg)
        THEN TRUE
        ELSE /\ tasks' = tasks
             /\ storage' = storage
             /\ lastOp'.outcome # "imported"
      ]_vars

C7_Delete ==
    [][lastOp'.op = "deleteTimeout" =>
        LET others == {i \in 1..Len(tasks) : tasks[i].id # lastOp'.arg.id}
        IN  /\ tasks' = Pick(tasks, others)
            /\ \A i \in 1..Len(tasks') : tasks'[i].id # lastOp'.arg.id
            /\ others = 1..Len(tasks) => tasks' = tasks
      ]_vars

\* a task has just been removed and another one is still there
C7_Witness ==
    /\ lastOp.op = "deleteTimeout"
    /\ lastOp.count = 1
    /\ Len(tasks) = 1
    /\ tasks[1].id # lastOp.arg.id

(* C8: toggleCompletion(id) flips the completed flag of the task with the  *)
(* matching id (the first one) and changes nothing else: every other task, *)
(* the order and the length are unchanged; when no task has that id the    *)
(* collection and the slot are unchanged and no error is raised.           *)
C8_Toggle ==
    [][lastOp'.op = "toggle" =>
        LET hits == {i \in 1..Len(tasks) : tasks[i].id = lastOp'.arg.id}
        IN  IF hits = {}
            THEN /\ tasks' = tasks
                 /\ storage' = storage
                 /\ lastOp'.outcome = "notFound"
                 /\ ~lastOp'.threw
            ELSE /\ Len(tasks') = Len(tasks)
                 /\ \E i \in hits :
                       /\ \A j \in hits : i <= j
                       /\ IsCompleted(tasks'[i]) = ~IsCompleted(tasks[i])
                       /\ DOMAIN tasks'[i] = DOMAIN tasks[i] \cup {"completed"}
                       /\ \A f \in DOMAIN tasks[i] \ {"completed"} :
                             tasks'[i][f] = tasks[i][f]
                       /\ \A j \in 1..Len(tasks) : j # i => tasks'[j] = tasks[j]
      ]_vars

\* the first of two tasks has just been completed, the second is untouched
C8_Witness ==
    /\ lastOp.op = "toggle"
    /\ lastOp.outcome = "toggled"
    /\ Len(tasks) = 2
    /\ tasks[1].id = lastOp.arg.id
    /\ IsCompleted(tasks[1])
    /\ ~IsCompleted(tasks[2])

(* C9: a successful add(text) appends exactly one new task at the end of   *)
(* the collection, with text equal to the trimmed input and completed      *)
(* false, and leaves the existing tasks unchanged and in the same order.   *)
C9_Add ==
    [][(lastOp'.op = "add" /\ lastOp'.outcome = "added") =>
        /\ Len(tasks') = Len(tasks) + 1
        /\ \A i \in 1..Len(tasks) : tasks'[i] = tasks[i]
        /\ IsTrimOf(tasks'[Len(tasks')].text, lastOp'.arg.text)
        /\ tasks'[Len(tasks')].completed = FALSE
      ]_vars

\* "b " has just been added as "b" behind an existing task
C9_Witness ==
    /\ lastOp.op = "add"
    /\ lastOp.outcome = "added"
    /\ lastOp.arg.text = <<"b", " ">>
    /\ Len(tasks) = 2
    /\ tasks[2].text = <<"b">>

(* C10: round trip: for every collection, load() after save(collection) on *)
(* the same slot yields a collection equal to the saved one in content and *)
(* in order, in the same process and in a fresh one.                       *)
C10_RoundTrip ==
    LET slot == SaveTasksToStorage(tasks, TRUE)
    IN  /\ LoadTasksFromStorage(slot, <<>>) = tasks
        /\ LoadTasksFromStorage(slot, tasks) = tasks

\* the page has just loaded two tasks, one completed, from the slot
C10_Witness ==
    /\ lastOp.op = "initializeApp"
    /\ lastOp.outcome = "loaded"
    /\ Len(tasks) = 2
    /\ IsCompleted(tasks[1])
    /\ storage = JsonStringify(tasks)

\* the ids of the tasks of ts, in order: what the task list displays under "all"
IdsOf(ts) == [i \in 1..Len(ts) |-> ts[i].id]

(* C11: when the storage write inside save fails, the failure is caught    *)
(* and not propagated: the mutation that triggered the save (add, toggle,  *)
(* delete, clearCompleted, import) still takes effect in the in-memory     *)
(* collection, the handler goes on to render it, and nothing is written.   *)
C11_SaveFailureKeepsMutation ==
    [][lastOp'.saveFailed =>
        /\ storage' = storage
        /\ lastOp'.outcome \in {"added", "toggled", "deleted", "cleared", "imported"}
        /\ lastOp'.op = "add" =>
               /\ Len(tasks') = Len(tasks) + 1
               /\ IsTrimOf(tasks'[Len(tasks')].text, lastOp'.arg.text)
        /\ lastOp'.op = "toggle" =>
               \E i \in 1..Len(tasks) :
                   /\ tasks[i].id = lastOp'.arg.id
                   /\ IsCompleted(tasks'[i]) # IsCompleted(tasks[i])
        /\ lastOp'.op = "deleteTimeout" =>
               tasks' = Pick(tasks, {i \in 1..Len(tasks) : tasks[i].id # lastOp'.arg.id})
        /\ lastOp'.op = "clearCompleted" =>
               tasks' = Pick(tasks, {i \in 1..Len(tasks) : ~IsCompleted(tasks[i])})
        /\ lastOp'.op = "import" =>
               /\ Len(tasks') = Len(lastOp'.arg.items)
               /\ \A i \in 1..Len(tasks') :
                     \A mem \in {lastOp'.arg.items[i][k] :
                                    k \in 1..Len(lastOp'.arg.items[i])} :
                         tasks'[i][mem[1]] = mem[2]
        /\ currentFilter = "all" => dom' = IdsOf(tasks')
      ]_vars

\* a second task has just been added although its save failed
C11_Witness ==
    /\ lastOp.op = "add"
    /\ lastOp.saveFailed
    /\ Len(tasks) = 2
    /\ storage # JsonStringify(tasks)
    /\ dom = IdsOf(tasks)

(* C12: load() yields an empty collection when the storage slot is absent  *)
(* and when its content fails to parse, and in both cases application      *)
(* startup runs to completion without an uncaught error.                   *)
C12_StartUpCompletes ==
    (lastOp.op = "initializeApp" /\ storage.syntax \in {"null", "invalid"}) =>
        /\ tasks = <<>>
        /\ ~lastOp.threw

(* C13: whenever import reports an import error to the user, the in-memory *)
(* collection and the persisted slot are the same as before the import; a  *)
(* payload that is accepted and replaces the collection never produces the *)
(* import error report.                                                    *)
C13_ImportErrorMeansUnchanged ==
    [][lastOp'.op = "import" =>
        /\ lastOp'.alert = "Error importing tasks. Please check the file format."
              => tasks' = tasks /\ storage' = storage
        /\ lastOp'.outcome = "imported"
              => lastOp'.alert # "Error importing tasks. Please check the file format."
      ]_vars

(* C14: for the three filter values filteredTasks returns an order-        *)
(* preserving subsequence of the collection: "all" every task, "completed" *)
(* exactly the tasks with completed true, "pending" exactly those with     *)
(* completed false, so the last two are disjoint and together hold every   *)
(* task; changing the current filter displays that subsequence and changes *)
(* neither the collection nor the persisted slot.                          *)
C14_FilteredTasks ==
    [][LET done == {i \in 1..Len(tasks) : tasks[i].completed = TRUE}
           open == {i \in 1..Len(tasks) : tasks[i].completed = FALSE}
           expected(f) == CASE f = "completed" -> Pick(tasks, done)
                            [] f = "pending"   -> Pick(tasks, open)
                            [] f = "all"       -> tasks
       IN  /\ \A f \in {"all", "completed", "pending"} :
                 FilteredTasks(tasks, f) = expected(f)
           /\ done \cap open = {}
           /\ done \cup open = 1..Len(tasks)
           /\ Len(FilteredTasks(tasks, "completed"))
                + Len(FilteredTasks(tasks, "pending")) = Len(tasks)
           /\ lastOp'.op = "filter" =>
                 /\ tasks' = tasks
                 /\ storage' = storage
                 /\ currentFilter' = lastOp'.arg.filter
                 /\ dom' = IdsOf(expected(lastOp'.arg.filter))
      ]_vars

\* the completed filter has just been chosen and shows one task of two
C14_Witness ==
    /\ lastOp.op = "filter"
    /\ lastOp.arg.filter = "completed"
    /\ Len(tasks) = 2
    /\ Len(dom) = 1
    /\ \E i \in 1..2 : tasks[i].id = dom[1] /\ tasks[i].completed

(* C15: in every reachable collection state, including after an import,    *)
(* the statistics computed from the collection satisfy completed + pending *)
(* = total, with total the number of tasks and completed the number of     *)
(* tasks whose completed flag is set.                                      *)
C15_Statistics ==
    LET s == Statistics(tasks)
    IN  /\ s.completed + s.pending = s.total
        /\ s.total = Cardinality(DOMAIN tasks)
        /\ s.completed = Cardinality({i \in DOMAIN tasks : IsCompleted(tasks[i])})

\* an imported completed task and an added pending one
C15_Witness ==
    /\ Len(tasks) = 2
    /\ "text" \in DOMAIN tasks[1]
    /\ tasks[1].text = <<"A">>
    /\ IsCompleted(tasks[1])
    /\ ~IsCompleted(tasks[2])
    /\ Statistics(tasks) = [total |-> 2, completed |-> 1, pending |-> 1]

(* C16: deferring the removal of a deleted task to a timer callback is     *)
(* unobservable in the final state: whatever runs between the request and  *)
(* the timer gives, after the timer, what it gives when the task is        *)
(* removed at once.  Stated on the state an operation leaves while the     *)
(* delete of task k is pending: an add refused as a duplicate duplicates a *)
(* task other than k (with k removed at once it would have been added),    *)
(* and no task added or imported meanwhile has the id k (the callback      *)
(* would remove it, removing at once would not).                           *)
C16_DeferredDeleteUnobservable ==
    Len(timers) = 1 =>
        LET k == timers[1] IN
        /\ (lastOp.op = "add" /\ lastOp.outcome = "duplicate") =>
               \E i \in 1..Len(tasks) :
                   /\ tasks[i].id # k
                   /\ "text" \in DOMAIN tasks[i]
                   /\ EqualIgnoringCase(tasks[i].text, Stripped(lastOp.arg.text))
        /\ (lastOp.op = "add" /\ lastOp.outcome = "added") =>
               tasks[Len(tasks)].id # k
        /\ (lastOp.op = "import" /\ lastOp.outcome = "imported") =>
               \A i \in 1..Len(tasks) : tasks[i].id # k

(* C17: whenever no event handler or timer callback is executing and no    *)
(* storage write has failed, loading the persisted slot yields a           *)
(* collection equal in content and order to the in-memory collection; this *)
(* holds after startup and after every add, toggleCompletion, delete,      *)
(* clearCompleted, import and clearAllData.                                *)
C17_SlotMatchesCollection ==
    writeFailures = 0 =>
        LET loaded == IF storage.syntax = "null" THEN <<>>
                  ELSE [i \in 1..Len(storage.items) |->
                          [f \in {storage.items[i][m][1] :
                                     m \in 1..Len(storage.items[i])} |->
                              LET m == CHOOSE m \in 1..Len(storage.items[i]) :
                                           storage.items[i][m][1] = f
                              IN  storage.items[i][m][2]]]
        IN  /\ storage.syntax \in {"null", "array"} => loaded = tasks
            /\ LoadTasksFromStorage(storage, <<>>) = tasks

\* the timer callback has just removed one of two tasks and saved the other
C17_Witness ==
    /\ writeFailures = 0
    /\ lastOp.op = "deleteTimeout"
    /\ lastOp.count = 1
    /\ Len(tasks) = 1
    /\ storage.syntax = "array"
    /\ Len(storage.items) = 1

\* a delete timer is pending for task k
DeletePending(k) == \E i \in 1..Len(timers) : timers[i] = k

\* some task of the collection has the id k
InCollection(k) == \E i \in 1..Len(tasks) : tasks[i].id = k

\* some object of the array in the slot has the member "id": k
InSlot(k) ==
    /\ storage.syntax = "array"
    /\ \E i \in 1..Len(storage.items) :
          \E m \in 1..Len(storage.items[i]) : storage.items[i][m] = <<"id", k>>

(* C18 as stated: once delete has been requested for a displayed task,     *)
(* then under fair scheduling of the timer the task is eventually absent   *)
(* from both the in-memory collection and the persisted slot, whatever     *)
(* other operations are interleaved before the timer fires.                *)
C18_EventuallyDeleted ==
    \A k \in 1..MaxClock :
        DeletePending(k) ~> (~InCollection(k) /\ ~InSlot(k))

(* C18, amended: once delete has been requested for a displayed task, then *)
(* under fair scheduling of the timer the task is eventually absent from   *)
(* the in-memory collection and, unless a storage write has failed, from   *)
(* the persisted slot.                                                     *)
C18_EventuallyDeletedUnlessWriteFails ==
    \A k \in 1..MaxClock :
        DeletePending(k) ~> (~InCollection(k) /\ (~InSlot(k) \/ writeFailures > 0))

\* the callback has just removed the task from the collection and the slot
C18_Witness ==
    /\ lastOp.op = "deleteTimeout"
    /\ lastOp.count = 1
    /\ writeFailures = 0
    /\ ~InCollection(lastOp.arg.id)
    /\ ~InSlot(lastOp.arg.id)

(* C19: across any sequence of add, toggleCompletion, delete and           *)
(* clearCompleted, a task that remains in the collection keeps the id,     *)
(* text and createdAt it was created with, its completed flag changes only *)
(* through a toggleCompletion on its own id, and the relative order of any *)
(* two surviving tasks never changes.  Stated on every step: the new       *)
(* collection is a subsequence of the old one, followed by at most the     *)
(* task a successful add appends.                                          *)
C19_SurvivorsUnchanged ==
    [][\E K \in SUBSET (1..Len(tasks)) :
          LET kept == Pick(tasks, K) IN
          /\ Len(tasks') \in {Len(kept), Len(kept) + 1}
          /\ Len(tasks') = Len(kept) + 1 =>
                 lastOp'.op = "add" /\ lastOp'.outcome = "added"
          /\ \A j \in 1..Len(kept) :
                 /\ tasks'[j].id = kept[j].id
                 /\ tasks'[j].text = kept[j].text
                 /\ tasks'[j].createdAt = kept[j].createdAt
                 /\ tasks'[j].completed # kept[j].completed =>
                        lastOp'.op = "toggle" /\ lastOp'.arg.id = kept[j].id
      ]_vars

\* the second of two tasks has just been completed, the first is as it was
C19_Witness ==
    /\ lastOp.op = "toggle"
    /\ Len(tasks) = 2
    /\ tasks[2].id = lastOp.arg.id
    /\ tasks[1].id # lastOp.arg.id
    /\ tasks[2].completed
    /\ ~tasks[1].completed

(* C20: after load() the in-memory collection is always a sequence of task *)
(* records, whatever string the storage slot holds: slot content that      *)
(* parses but is not an array of tasks (an object, a number, a string,     *)
(* null) never becomes the collection.                                     *)
C20_LoadYieldsCollection ==
    lastOp.op = "initializeApp" =>
        \A i \in 1..Len(tasks) : "nonArray" \notin DOMAIN tasks[i]

====
